---- MODULE Spec2Model ----
(***************************************************************************)
(* A model of python-tidal's parallel paginator (tidalapi/workers.py) and  *)
(* of its authenticated request layer (tidalapi/request.py).               *)
(***************************************************************************)
EXTENDS Integers, Sequences, FiniteSets, TLC

\* ------------------------------------------------------------------------
\* Bounds of the model
\* ------------------------------------------------------------------------
\* Largest collection size of the simulated endpoint.
MaxN == 5
\* Largest chunk_size tried.
MaxChunk == 2
\* Largest number of pool workers tried.
MaxProc == 3

\* With chunk_size = 0 the rounds never end: how many of them are explored.
MaxZeroRounds == 3

Min(a, b) == IF a < b THEN a ELSE b

\* ------------------------------------------------------------------------
\* The paginator: workers.py
\* ------------------------------------------------------------------------
VARIABLES
    total,        \* number of items the endpoint holds
    falsy,        \* index of the item that is falsy (0), or -1 for none
    outcomes,     \* what the endpoint's page calls can do
    chunk_size,   \* get_items(chunk_size=...)
    processes,    \* get_items(processes=...)
    pc,           \* position of get_items
    items,        \* get_items' local  items
    offsets,      \* get_items' local  offsets
    remaining,    \* get_items' local  remaining
    new_items,    \* get_items' local  new_items
    task,         \* the futures of the current pool.map, by position
    collected,    \* how many futures the for loop has consumed
    result,       \* what get_items returned
    history,      \* per finished round: the page calls made and what they did
    completed,    \* the offsets of the page calls in completion order
    parsed        \* the global indices of the items handed to parse, in order

pagerVars == <<total, falsy, outcomes, chunk_size, processes, pc, items, offsets, remaining,
               new_items, task, collected, result, history, completed, parsed>>

\* The state of the request layer (request.py), modelled further down.
VARIABLES
    session,              \* the Session's credentials and parameters
    latest_err_response,  \* Requests.latest_err_response
    th,                   \* per calling thread: where it is in request
    threads,              \* the threads that call request
    ncalls,               \* how many calls each of them makes
    inputs,               \* the arguments the callers pass
    answers,              \* the responses the transport gives
    maxdepth,             \* the recursion depth explored
    wire,                 \* every transport call made
    refreshes             \* every token_refresh call made

reqVars == <<session, latest_err_response, th, threads, ncalls, inputs,
             answers, maxdepth, wire, refreshes>>

\* The state of a map_json call (request.py), modelled further down.
VARIABLES
    json_obj,     \* the page handed to map_json, which map_json writes into
    page_in,      \* the page as the caller built it
    parse_arg,    \* map_json(parse=...)
    session_arg,  \* map_json(session=...)
    mj,           \* the frame of the running map_json call
    outs          \* how the map_json calls made so far ended

mapVars == <<json_obj, page_in, parse_arg, session_arg, mj, outs>>

\* The state of a ProxyEnabledSession (session_proxy_patch.py), modelled
\* further down.
VARIABLES
    proxy_config,     \* ProxyEnabledSession.proxy_config: <<>> for None, else
                      \* <<the dictionary>>
    request_session,  \* the proxies and the auth of Session.request_session
    proxy_op,         \* the last operation called on the session
    proxy_before      \* request_session as it was before that operation

proxyVars == <<proxy_config, request_session, proxy_op, proxy_before>>

vars == <<pagerVars, reqVars, mapVars, proxyVars>>

\* The simulated endpoint: item j of the collection (deterministic content);
\* the item at index falsy, if any, is the falsy value 0.
Content(j) == IF j = falsy THEN 0 ELSE j + 1

\* The whole collection, i.e. what a serial fetch in index order yields.
Collection == [j \in 1..total |-> Content(j - 1)]

\* The page function of a well-behaved endpoint: at most limit items from offset.
PageFn(limit, offset) ==
    LET hi == Min(offset + limit, total)
        n  == IF hi > offset THEN hi - offset ELSE 0
    IN  [i \in 1..n |-> Content(offset + i - 1)]

\* What a page call can do: return its page, raise an Exception, return a
\* value that is not iterable (None), or misbehave: return one item fewer than
\* asked for, or ignore the limit and return everything from the offset on.
Outcomes == {"ok", "raise", "noniter", "short", "long"}

\* What the endpoint hands back for a call f(limit, offset).
Served(outcome, limit, offset) ==
    CASE outcome = "ok" -> PageFn(limit, offset)
      [] outcome = "short" -> PageFn(limit - 1, offset)
      [] outcome = "long" -> PageFn(total, offset)
      [] OTHER -> <<>>

\* func_wrapper, lines 10-15: the call of f inside try/except Exception.
PageItems(outcome, raw) == IF outcome = "raise" THEN <<>> ELSE raw

\* A tag without the offset: one that is the position in the page only.
TagPageLocal(offset, its) == [i \in 1..Len(its) |-> <<i - 1, its[i]>>]

\* A tag that counts the positions in the page from one.
TagOneBased(offset, its) == [i \in 1..Len(its) |-> <<i + offset, its[i]>>]

\* func_wrapper, line 16: enumerate(items) tagged with i + offset.
Tag(offset, its) == [i \in 1..Len(its) |-> <<(i - 1) + offset, its[i]>>]

\* func_wrapper without its try/except: the exception stays in the future.
FuncWrapperNoCatch(outcome, offset, raw) ==
    IF outcome \in {"noniter", "raise"}
    THEN [exc |-> TRUE, val |-> <<>>]
    ELSE [exc |-> FALSE, val |-> Tag(offset, raw)]

\* func_wrapper as a whole: the value of the future, or the exception it holds
\* (enumerate of a non-iterable raises outside the try block).
FuncWrapper(outcome, offset, raw) ==
    IF outcome = "noniter"
    THEN [exc |-> TRUE, val |-> <<>>]
    ELSE [exc |-> FALSE, val |-> Tag(offset, PageItems(outcome, raw))]

\* An assignment where the code extends.
ExtendAssign(acc, new) == new

\* get_items, lines 54 and 57: list.extend.
Extend(acc, new) == acc \o new

\* A loop that goes on while a round returned anything.
LoopCondAny(rem, cs, p) == rem > 0

\* A round of one offset more than there are worker threads.
NextOffsetsOneMore(offs, cs, p) ==
    [i \in 1..(p + 1) |-> offs[Len(offs)] + cs * i]

\* A loop that goes on after a full round that returned something.
LoopCondNonEmpty(rem, cs, p) == rem = cs * p /\ rem > 0

\* A loop that goes on after every round that returned a full round or more.
LoopCondAtLeast(rem, cs, p) == rem >= cs * p

\* Offsets that go on from the first offset of the round before.
NextOffsetsFromFirst(offs, cs, p) == [i \in 1..p |-> offs[1] + cs * i]

\* get_items, line 36: the offsets of the next round.
NextOffsets(offs, cs, p) == [i \in 1..p |-> offs[Len(offs)] + cs * i]

\* get_items, line 35: the while condition.
LoopCond(rem, cs, p) == rem = cs * p

\* get_items, line 32: the number of worker threads of the pool.
PoolSize(p) == p

\* get_items, line 59: [_ for _ in items if _] over (index, item) tuples; a
\* non-empty tuple is truthy whatever it holds.
Truthy(pair) == Len(pair) > 0

Filter(s) == SelectSeq(s, Truthy)

\* The items left in the order in which they were collected.
Unsorted(s) == s

\* sorted(items, key=lambda item: item[0]): Python's sort is stable, so an
\* element's place is the number of elements with a smaller key, or with an
\* equal key and an earlier position.
Rank(s, i) ==
    Cardinality({j \in 1..Len(s) :
                    \/ s[j][1] < s[i][1]
                    \/ (s[j][1] = s[i][1] /\ j <= i)})

SortedByIndex(s) ==
    [r \in 1..Len(s) |-> s[CHOOSE i \in 1..Len(s) : Rank(s, i) = r]]

\* get_items(parse=lambda _: _): the default parse function.
Parse(x) == x

\* A map that walks the sorted items from the last to the first.
ParseCallsBackwards(sorted) ==
    [k \in 1..Len(sorted) |-> sorted[Len(sorted) + 1 - k][1]]

\* Line 64: map(parse, sorted_items) calls parse once for each element of
\* sorted_items, from the first to the last; the call for an element is
\* named by the global index the element was sorted by.
ParseCalls(sorted) == [k \in 1..Len(sorted) |-> sorted[k][1]]

\* get_items, lines 59-64.
Assemble(its) ==
    LET sorted == SortedByIndex(Filter(its))
    IN  [k \in 1..Len(sorted) |-> Parse(sorted[k][2])]

\* get_items(func, *args): the extra arguments for the page function.
ExtraArgs == <<"order", "direction">>

\* Lines 40-47: the argument tuple of one unit, after func: the offset for
\* the tags, then the arguments of the page call: limit, offset, *args.
UnitArgs(offset, cs, extra) == <<offset, cs, offset>> \o extra

\* func_wrapper, lines 9-11: (f, offset, *args) = args; f(*args).
CallArgs(unit) == Tail(unit)

NoTask == [st |-> "none", offset |-> 0, call |-> <<>>, outcome |-> "none",
           raw |-> <<>>, res |-> [exc |-> FALSE, val |-> <<>>]]

Running == {i \in DOMAIN task : task[i].st = "running"}

\* A pool that is left without waiting for its threads.
PoolLeft == TRUE

\* Line 32, the end of the with block: shutdown(wait=True) returns when no
\* pool thread is running a call any more.
PoolJoined == Running = {}

PagerConfigs ==
    {<<n, c, p>> : n \in 0..MaxN, c \in 1..MaxChunk, p \in 1..MaxProc}
        \cup {<<120, 50, 2>>}

\* get_items, lines 28-30, for the arguments in cfgs, with the falsy item at
\* one of the indices in fs and page calls that can do what can says.
PagerStart(cfgs, fs, can) ==
    /\ \E cfg \in cfgs :
         /\ total = cfg[1]
         /\ chunk_size = cfg[2]
         /\ processes = cfg[3]
         /\ offsets = <<-cfg[2]>>
         /\ remaining = cfg[2] * cfg[3]
         /\ task = [i \in 1..cfg[3] |-> NoTask]
         /\ falsy \in {j \in fs : j < cfg[1]}
    /\ outcomes = can
    /\ pc = "loop"
    /\ items = <<>>
    /\ new_items = <<>>
    /\ collected = 0
    /\ result = <<>>
    /\ history = <<>>
    /\ completed = <<>>
    /\ parsed = <<>>

\* An endpoint whose pages are as long as asked for, with truthy items, and
\* whose calls can fail.
PagerInit == PagerStart(PagerConfigs, {-1}, Outcomes \ {"short", "long"})

\* An endpoint that can misbehave and that holds a falsy item, read with two
\* worker threads.
MisbehavingInit ==
    PagerStart({cfg \in PagerConfigs : cfg[1] <= MaxN /\ cfg[3] = 2}, {-1, 1},
               Outcomes \ {"raise"})

\* Lines 35-50: the loop condition holds; the round's offsets are computed and
\* pool.map submits one func_wrapper call per offset.
Dispatch ==
    /\ pc = "loop"
    /\ LoopCond(remaining, chunk_size, processes)
    /\ chunk_size = 0 => Len(history) < MaxZeroRounds
    /\ offsets' = NextOffsets(offsets, chunk_size, processes)
    /\ task' = [i \in DOMAIN offsets' |->
                  LET unit == UnitArgs(offsets'[i], chunk_size, ExtraArgs)
                  IN  [NoTask EXCEPT !.st = "queued", !.offset = unit[1],
                                     !.call = CallArgs(unit)]]
    /\ new_items' = <<>>
    /\ collected' = 0
    /\ pc' = "round"
    /\ UNCHANGED <<total, falsy, outcomes, chunk_size,
                   processes, items, remaining, result,
                   history, completed, parsed>>
    /\ UNCHANGED <<reqVars, mapVars, proxyVars>>

\* A pool thread takes the oldest queued call and calls f(limit, offset, ...).
Start(i) ==
    /\ pc \in {"round", "raising"}
    /\ task[i].st = "queued"
    /\ \A j \in 1..(i - 1) : task[j].st # "queued"
    /\ Cardinality(Running) < PoolSize(processes)
    /\ task' = [task EXCEPT ![i].st = "running"]
    /\ UNCHANGED <<total, falsy, outcomes, chunk_size,
                   processes, pc, items, offsets, remaining,
                   new_items, collected, result, history, completed, parsed>>
    /\ UNCHANGED <<reqVars, mapVars, proxyVars>>

\* The page call of future i ends, in any order among the running ones.
Complete(i) ==
    /\ pc \in {"round", "raising"}
    /\ task[i].st = "running"
    /\ \E outcome \in outcomes :
         LET raw == Served(outcome, task[i].call[1], task[i].call[2])
         IN  task' = [task EXCEPT
                        ![i].st = "done",
                        ![i].outcome = outcome,
                        ![i].raw = raw,
                        ![i].res = FuncWrapper(outcome, task[i].offset, raw)]
    /\ completed' = Append(completed, task[i].offset)
    /\ UNCHANGED <<total, falsy, outcomes, chunk_size,
                   processes, pc, items, offsets, remaining,
                   new_items, collected, result, history, parsed>>
    /\ UNCHANGED <<reqVars, mapVars, proxyVars>>

\* A result iterator that hands out a result without waiting for the call.
ResultTaken(t, k) == TRUE

\* Line 53: the result iterator of pool.map blocks in future.result() until
\* the next future, in submission order, is done.
ResultReady(t, k) == t[k + 1].st = "done"

\* Lines 53-54: the for loop takes the next future's result, in submission
\* order; a future holding an exception raises it here, and the result
\* iterator cancels the futures not yet started.
Collect ==
    /\ pc = "round"
    /\ collected < Len(task)
    /\ ResultReady(task, collected)
    /\ IF task[collected + 1].res.exc
       THEN /\ pc' = "raising"
            /\ task' = [i \in DOMAIN task |->
                          IF task[i].st = "queued"
                          THEN [task[i] EXCEPT !.st = "cancelled"]
                          ELSE task[i]]
            /\ UNCHANGED <<new_items, collected>>
       ELSE /\ new_items' = Extend(new_items, task[collected + 1].res.val)
            /\ collected' = collected + 1
            /\ UNCHANGED <<pc, task>>
    /\ UNCHANGED <<total, falsy, outcomes, chunk_size,
                   processes, items, offsets, remaining,
                   result, history, completed, parsed>>
    /\ UNCHANGED <<reqVars, mapVars, proxyVars>>

\* Lines 56-57, after the last future was consumed.
EndRound ==
    /\ pc = "round"
    /\ collected = Len(task)
    /\ remaining' = Len(new_items)
    /\ items' = Extend(items, new_items)
    /\ history' = Append(history,
                     [i \in DOMAIN task |->
                        [offset |-> task[i].offset, outcome |-> task[i].outcome,
                         raw |-> task[i].raw]])
    /\ pc' = "loop"
    /\ UNCHANGED <<total, falsy, outcomes, chunk_size,
                   processes, offsets, new_items, task,
                   collected, result, completed, parsed>>
    /\ UNCHANGED <<reqVars, mapVars, proxyVars>>

\* Line 35 fails: the with block ends and the pool is shut down (wait=True).
ExitLoop ==
    /\ pc = "loop"
    /\ ~LoopCond(remaining, chunk_size, processes)
    /\ PoolJoined
    /\ pc' = "post"
    /\ UNCHANGED <<total, falsy, outcomes, chunk_size,
                   processes, items, offsets, remaining,
                   new_items, task, collected, result, history, completed, parsed>>
    /\ UNCHANGED <<reqVars, mapVars, proxyVars>>

\* Lines 59-64.
Finish ==
    /\ pc = "post"
    /\ parsed' = ParseCalls(SortedByIndex(Filter(items)))
    /\ result' = Assemble(items)
    /\ pc' = "done"
    /\ UNCHANGED <<total, falsy, outcomes, chunk_size,
                   processes, items, offsets, remaining,
                   new_items, task, collected, history, completed>>
    /\ UNCHANGED <<reqVars, mapVars, proxyVars>>

\* An exception leaves the with block: shutdown(wait=True) waits for the calls
\* still running, then the exception reaches the caller of get_items.
Unwind ==
    /\ pc = "raising"
    /\ PoolJoined
    /\ \A i \in DOMAIN task : task[i].st # "queued"
    /\ pc' = "raised"
    /\ UNCHANGED <<total, falsy, outcomes, chunk_size,
                   processes, items, offsets, remaining,
                   new_items, task, collected, result, history, completed, parsed>>
    /\ UNCHANGED <<reqVars, mapVars, proxyVars>>

PagerNext ==
    \/ Dispatch
    \/ \E i \in 1..processes : Start(i)
    \/ \E i \in 1..processes : Complete(i)
    \/ Collect
    \/ EndRound
    \/ ExitLoop
    \/ Finish
    \/ Unwind

\* ------------------------------------------------------------------------
\* The authenticated request layer: request.py
\* ------------------------------------------------------------------------
\* Largest number of threads calling request at the same time.
MaxThreads == 2
\* Largest number of request calls one thread makes one after the other.
MaxCalls == 2
\* Depth of basic_request's recursion at which the model refreshes and retries
\* no more.
MaxDepth == 2

\* An absent value (None).
None == "None"

\* requests.Response(): no status, no content.
EmptyResponse == [id |-> <<0, 0, 0>>, status |-> 0, body |-> "empty"]

\* What the transport can answer: a status and the kind of body: a JSON
\* object ("json"), a JSON object with a userMessage telling that the token has
\* expired ("expired"), a JSON object with an errors list whose first entry
\* has a detail ("errors"), or text that is not JSON ("nonjson").
Responses ==
    { [status |-> 200, body |-> "json"],
      [status |-> 200, body |-> "expired"],
      [status |-> 401, body |-> "expired"],
      [status |-> 404, body |-> "json"],
      [status |-> 404, body |-> "errors"],
      [status |-> 500, body |-> "nonjson"] }

\* The answers tried with several callers.
ConcurrentResponses ==
    { [status |-> 200, body |-> "json"],
      [status |-> 401, body |-> "expired"],
      [status |-> 404, body |-> "json"] }

\* Response.ok as request.py reads it (lines 108, 153): raise_for_status
\* raises for the statuses from 400 on.
Ok(resp) == resp.status < 400

\* Lines 109-117: the body parses as JSON and its userMessage starts with
\* "The token has expired.".
SignalsExpiry(resp) == resp.body = "expired"

\* A refresh on any failed response, whatever its body says.
NeedsRefreshAnyFailure(resp, refresh_token) ==
    ~Ok(resp) /\ refresh_token # ""

\* Lines 108-117: when basic_request goes for a refresh.
NeedsRefresh(resp, refresh_token) ==
    ~Ok(resp) /\ refresh_token # "" /\ SignalsExpiry(resp)

\* urllib.parse.urljoin on an absolute base: an absolute second argument wins,
\* a relative one is resolved against the base.
UrlJoin(base, path) ==
    IF path.base # "" THEN path ELSE [base |-> base, path |-> path.path]

\* session.config.api_v1_location (line 100).
ApiV1Location == "v1"

\* A merge that takes every value of the caller, None included.
MergeParamsAll(params) ==
    LET defaults == [sessionId |-> session.session_id,
                     countryCode |-> session.country_code,
                     limit |-> session.item_limit]
    IN  [k \in DOMAIN defaults \cup DOMAIN params |->
            IF k \in DOMAIN params THEN params[k] ELSE defaults[k]]

\* Lines 74-84: the defaults, overridden by the caller's values that are not None.
MergeParams(params) ==
    LET defaults == [sessionId |-> session.session_id,
                     countryCode |-> session.country_code,
                     limit |-> session.item_limit]
        not_none == {k \in DOMAIN params : params[k] # None}
    IN  [k \in DOMAIN defaults \cup not_none |->
            IF k \in not_none THEN params[k] ELSE defaults[k]]

\* Headers in which an authorization header that is already there is kept, as
\* the two identity headers are.
BuildHeadersKeepAuth(headers) ==
    LET with_auth == session.token_type # "" /\ session.access_token # -1
        keys == DOMAIN headers \cup {"x-tidal-client-version", "User-Agent"}
                    \cup (IF with_auth THEN {"authorization"} ELSE {})
    IN  [k \in keys |->
            IF k \in DOMAIN headers THEN headers[k]
            ELSE IF k = "authorization"
            THEN <<session.token_type, session.access_token>>
            ELSE IF k = "x-tidal-client-version" THEN "2025.7.16"
            ELSE "Mozilla/5.0"]

\* Lines 86-98: the caller's headers, the two identity headers unless supplied,
\* and the authorization header when the session has credentials.
BuildHeaders(headers) ==
    LET with_auth == session.token_type # "" /\ session.access_token # -1
        keys == DOMAIN headers \cup {"x-tidal-client-version", "User-Agent"}
                    \cup (IF with_auth THEN {"authorization"} ELSE {})
    IN  [k \in keys |->
            IF k = "authorization" /\ with_auth
            THEN <<session.token_type, session.access_token>>
            ELSE IF k \in DOMAIN headers THEN headers[k]
            ELSE IF k = "x-tidal-client-version" THEN "2025.7.16"
            ELSE "Mozilla/5.0"]

\* Lines 99-102.
BuildUrl(path, base_url) ==
    UrlJoin(IF base_url = None THEN ApiV1Location ELSE base_url, path)

\* A retry that passes the original path and leaves base_url to its default.
RetryArgsPath(args, url, headers) ==
    [method |-> args.method, path |-> args.path, params |-> args.params,
     data |-> args.data, headers |-> headers, base_url |-> None]

\* Line 121: self.basic_request(method, url, params, data, headers).
RetryArgs(args, url, headers) ==
    [method |-> args.method, path |-> url, params |-> args.params,
     data |-> args.data, headers |-> headers, base_url |-> None]

\* Session.token_refresh: on success the session gets a new access token and
\* True is returned; on failure the credentials stay and False is returned.
TokenRefresh(s, ok, fresh) ==
    IF ok THEN [s EXCEPT !.access_token = fresh] ELSE s

\* http_error_to_tidal_error: the domain error of a status, if any.
HttpErrorToTidalError(resp) ==
    CASE resp.status = 404 -> "ObjectNotFound"
      [] resp.status = 429 -> "TooManyRequests"
      [] OTHER -> None

\* A handler that re-raises the HTTPError whatever the mapping says.
RaisedErrorGeneric(resp) == "HTTPError"

\* Lines 157-160: the mapped error if there is one, else the HTTPError.
RaisedError(resp) ==
    IF HttpErrorToTidalError(resp) # None
    THEN HttpErrorToTidalError(resp) ELSE "HTTPError"

\* Response.content is truthy: the response has a body.
HasContent(resp) == resp.body # "empty"

\* Response.json() succeeds.
ParsesAsJson(resp) == resp.body \in {"json", "expired", "errors"}

\* What a getter of the latest error response hands back: a value, which is
\* empty or taken from a response, or an exception.
Got(kind, error, empty, of) ==
    [kind |-> kind, error |-> error, empty |-> empty, of |-> of]

\* Lines 163-172: get_latest_err_response.
GetLatestErrResponse(resp) ==
    IF ~HasContent(resp) THEN Got("returned", None, TRUE, EmptyResponse.id)
    ELSE IF ParsesAsJson(resp) THEN Got("returned", None, FALSE, resp.id)
    ELSE Got("raised", "JSONDecodeError", FALSE, resp.id)

\* Lines 174-184: get_latest_err_response_str.
GetLatestErrResponseStr(resp) ==
    IF ~HasContent(resp) THEN Got("returned", None, TRUE, EmptyResponse.id)
    ELSE IF ~ParsesAsJson(resp)
    THEN Got("raised", "JSONDecodeError", FALSE, resp.id)
    ELSE IF resp.body # "errors" THEN Got("raised", "KeyError", FALSE, resp.id)
    ELSE Got("returned", None, FALSE, resp.id)

\* A slot that keeps the first failed response written to it.
LatestErrAfterKeepingFirst(resp, latest) ==
    IF Ok(resp) \/ latest.status # 0 THEN latest ELSE resp

\* A slot that a successful call clears.
LatestErrAfterClearing(resp, latest) == IF Ok(resp) THEN EmptyResponse ELSE resp

\* Lines 152-161: what request leaves in latest_err_response.
LatestErrAfter(resp, latest) == IF Ok(resp) THEN latest ELSE resp

NoParams == [k \in {} |-> ""]

\* The calls tried: a plain GET; a POST with parameters (one of them None), a
\* body, a header and a base URL of its own; a GET of an absolute URL.
PlainGet ==
    [method |-> "GET", path |-> [base |-> "", path |-> "tracks"],
     params |-> NoParams, data |-> None, headers |-> NoParams,
     base_url |-> None]

AllInputs ==
    { PlainGet,
      [method |-> "POST", path |-> [base |-> "", path |-> "folders"],
       params |-> [limit |-> "10", offset |-> None], data |-> "body",
       headers |-> [Accept |-> "json"], base_url |-> "v2"],
      [method |-> "GET", path |-> [base |-> "other", path |-> "x"],
       params |-> [countryCode |-> None, order |-> "DATE"], data |-> None,
       headers |-> NoParams, base_url |-> None] }

Idle == [pc |-> "idle", callno |-> 0, depth |-> 0, args |-> PlainGet,
         request_params |-> NoParams, headers |-> NoParams,
         url |-> [base |-> "", path |-> ""], request |-> EmptyResponse,
         refresh_token |-> "", outcome |-> [kind |-> "none", error |-> None]]

\* The sessions tried: logged in with and without a refresh token, and not
\* logged in.
Sessions ==
    { [token_type |-> tt, access_token |-> at, refresh_token |-> rt,
       session_id |-> "sid", country_code |-> "US", item_limit |-> "1000"] :
        tt \in {"Bearer"}, at \in {0}, rt \in {"rt", ""} }
      \cup
    { [token_type |-> "", access_token |-> -1, refresh_token |-> "",
       session_id |-> "sid", country_code |-> "US", item_limit |-> "1000"] }

\* Requests.__init__ (lines 57-63), and the callers about to call request.
ReqInit(ts, n, ins, ans, d) ==
    /\ session \in Sessions
    /\ latest_err_response = EmptyResponse
    /\ threads = ts
    /\ ncalls = n
    /\ inputs = ins
    /\ answers = ans
    /\ maxdepth = d
    /\ th = [t \in ts |-> Idle]
    /\ wire = {}
    /\ refreshes = {}

\* basic_request, lines 74-102: parameters, headers and URL of the request,
\* from the arguments and the session as it is now.
Built(frame) ==
    [frame EXCEPT
        !.request_params = MergeParams(frame.args.params),
        !.headers = BuildHeaders(frame.args.headers),
        !.url = BuildUrl(frame.args.path, frame.args.base_url),
        !.pc = "send"]

\* A caller calls request(method, path, params, data, headers, base_url),
\* which calls basic_request (line 150), which prepares the request.
StartCall(t) ==
    /\ th[t].pc \in {"idle", "done"}
    /\ th[t].callno < ncalls
    /\ \E a \in inputs :
         th' = [th EXCEPT ![t] = Built([Idle EXCEPT
                                          !.args = a,
                                          !.callno = th[t].callno + 1])]
    /\ UNCHANGED <<session, latest_err_response, threads, ncalls, inputs, answers,
                   maxdepth, wire, refreshes>>
    /\ UNCHANGED <<pagerVars, mapVars, proxyVars>>

\* What goes on the wire at line 103.
Sent(t) ==
    [id |-> <<t, th[t].callno, th[t].depth>>, method |-> th[t].args.method,
     url |-> th[t].url, params |-> th[t].request_params,
     data |-> th[t].args.data, headers |-> th[t].headers,
     auth_current |-> ("authorization" \in DOMAIN th[t].headers) =>
         th[t].headers["authorization"]
             = <<session.token_type, session.access_token>>]

\* Lines 103-105: the transport answers with a response.
Send(t) ==
    /\ th[t].pc = "send"
    /\ \E r \in answers :
         th' = [th EXCEPT ![t].request =
                            [id |-> <<t, th[t].callno, th[t].depth>>,
                             status |-> r.status, body |-> r.body],
                          ![t].pc = "check"]
    /\ wire' = wire \cup {Sent(t)}
    /\ UNCHANGED <<session, latest_err_response, threads, ncalls, inputs,
                   answers, maxdepth, refreshes>>
    /\ UNCHANGED <<pagerVars, mapVars, proxyVars>>

\* A transport error that is handled like a response that is not ok.
TransportErrorChecked == "check"

\* Lines 103-105 and 150: no try block is around the transport call or around
\* the call of basic_request, so a transport error ends the call of request.
TransportErrorEnds == "done"

\* Lines 103-105: the transport raises (no connection); the exception passes
\* through basic_request and request, whose except clause takes HTTPError only.
TransportFail(t) ==
    /\ th[t].pc = "send"
    /\ th' = [th EXCEPT ![t].pc = TransportErrorEnds,
                        ![t].request = EmptyResponse,
                        ![t].outcome = [kind |-> "raised",
                                        error |-> "ConnectionError"]]
    /\ wire' = wire \cup {Sent(t)}
    /\ UNCHANGED <<session, latest_err_response, threads, ncalls, inputs,
                   answers, maxdepth, refreshes>>
    /\ UNCHANGED <<pagerVars, mapVars, proxyVars>>

\* Lines 107-117 and 122-124: refresh, or keep the response.
Check(t) ==
    /\ th[t].pc = "check"
    /\ th' = [th EXCEPT
                ![t].refresh_token = session.refresh_token,
                ![t].pc = IF NeedsRefresh(th[t].request, session.refresh_token)
                          THEN "refresh" ELSE "return"]
    /\ UNCHANGED <<session, latest_err_response, threads, ncalls, inputs, answers,
                   maxdepth, wire,
                   refreshes>>
    /\ UNCHANGED <<pagerVars, mapVars, proxyVars>>

\* Lines 119-120: token_refresh, which succeeds or not.
Refresh(t) ==
    /\ th[t].pc = "refresh"
    /\ th[t].depth < maxdepth
    /\ \E ok \in BOOLEAN :
         /\ session' = TokenRefresh(session, ok, session.access_token + 1)
         /\ refreshes' = refreshes \cup
                {[id |-> <<t, th[t].callno, th[t].depth>>,
                  trigger |-> th[t].request,
                  refresh_token |-> th[t].refresh_token, refreshed |-> ok]}
         /\ th' = [th EXCEPT ![t].pc = IF ok THEN "retry" ELSE "return"]
    /\ UNCHANGED <<latest_err_response, threads, ncalls, inputs, answers,
                   maxdepth, wire>>
    /\ UNCHANGED <<pagerVars, mapVars, proxyVars>>

\* Line 121: basic_request calls itself, and the inner call prepares its
\* request.
Retry(t) ==
    /\ th[t].pc = "retry"
    /\ th' = [th EXCEPT ![t] = Built([th[t] EXCEPT
                  !.args = RetryArgs(th[t].args, th[t].url, th[t].headers),
                  !.depth = th[t].depth + 1])]
    /\ UNCHANGED <<session, latest_err_response, threads, ncalls, inputs, answers,
                   maxdepth, wire, refreshes>>
    /\ UNCHANGED <<pagerVars, mapVars, proxyVars>>

\* The mapped error of lines 157-160, or none for a response that is ok.
RequestOutcome(resp) ==
    IF Ok(resp)
    THEN [kind |-> "returned", error |-> None]
    ELSE [kind |-> "raised", error |-> RaisedError(resp)]

\* Line 126 in every frame of basic_request, then request's lines 150-161.
RequestReturn(t) ==
    /\ th[t].pc = "return"
    /\ latest_err_response' = LatestErrAfter(th[t].request, latest_err_response)
    /\ th' = [th EXCEPT ![t].pc = "done",
                        ![t].outcome = RequestOutcome(th[t].request)]
    /\ UNCHANGED <<session, threads, ncalls, inputs, answers, maxdepth, wire,
                   refreshes>>
    /\ UNCHANGED <<pagerVars, mapVars, proxyVars>>

ReqNext ==
    \/ \E t \in threads : StartCall(t)
    \/ \E t \in threads : Send(t)
    \/ \E t \in threads : TransportFail(t)
    \/ \E t \in threads : Check(t)
    \/ \E t \in threads : Refresh(t)
    \/ \E t \in threads : Retry(t)
    \/ \E t \in threads : RequestReturn(t)

\* ------------------------------------------------------------------------
\* The page mapper: Requests.map_json
\* ------------------------------------------------------------------------
\* Largest number of elements in the items of a page.
MaxItems == 2
\* Number of times map_json is applied to the same page.
MaxMapCalls == 2

\* str.lower() on the type tags tried.
Lower(s) ==
    CASE s = "TRACK" -> "track"
      [] s = "Album" -> "album"
      [] OTHER -> s

\* Line 236: cast(str, item["type"]).lower() + "s".
TypeKey(type) == Lower(type) \o "s"

\* Session.convert_type(key, output="parse"): the parser of a type key.
ConvertType(key) ==
    CASE key = "tracks" -> "parse_track"
      [] key = "albums" -> "parse_album"
      [] OTHER -> None

\* A deterministic parser applied to a JSON object: the result tells which
\* parser made it, and from what.
Apply(parser, obj) == [by |-> parser, obj |-> obj]

\* The elements tried: wrapped with type and created, in two types and with an
\* inner dateAdded of its own; wrapped without created; wrapped without type;
\* plain.
Elements ==
    { [item |-> [id |-> "a"], type |-> "TRACK", created |-> "d1"],
      [item |-> [id |-> "b"], type |-> "Album", created |-> "d2"],
      [item |-> [id |-> "c", dateAdded |-> "d0"], type |-> "TRACK",
       created |-> "d3"],
      [item |-> [id |-> "d"], type |-> "Album"],
      [item |-> [id |-> "e"], created |-> "d5"],
      [id |-> "f"] }

\* The pages tried: a single object, and items of up to MaxItems elements.
Pages ==
    { [id |-> "page"] }
      \cup { [items |-> its] :
                its \in UNION { [1..n -> Elements] : n \in 0..MaxItems } }

\* How a call ends: with a value (a list, or a single object) or an error.
Raised(e) == [kind |-> "raised", error |-> e, single |-> FALSE, value |-> <<>>]

ReturnedList(l) ==
    [kind |-> "returned", error |-> None, single |-> FALSE, value |-> l]

ReturnedSingle(x) ==
    [kind |-> "returned", error |-> None, single |-> TRUE, value |-> <<x>>]

\* Lines 217 and 219: json_obj.get("items") is not None.
HasItems(json) == "items" \in DOMAIN json

\* A wrapped branch that is taken only when every element is wrapped.
IsWrappedThroughout(its) ==
    Len(its) > 0 /\ \A k \in DOMAIN its : "item" \in DOMAIN its[k]

\* Line 225: the wrapped branch is taken on the first element.
IsWrapped(its) == Len(its) > 0 /\ "item" \in DOMAIN its[1]

\* Line 227: created is hoisted when the first element has it.
HoistsCreated(its) == "created" \in DOMAIN its[1]

\* Lines 219-223: a page without items.
MapSingle(json, parse) ==
    IF parse = None THEN Raised("ValueError")
    ELSE ReturnedSingle(Apply(parse, json))

\* Lines 245-247: a plain list of items.
MapPlain(its, parse) ==
    IF parse = None THEN Raised("ValueError")
    ELSE ReturnedList([k \in DOMAIN its |-> Apply(parse, its[k])])

\* A hoist that puts the inner item, with dateAdded, in the place of the
\* wrapper.
HoistedFlat(el) ==
    [k \in DOMAIN el["item"] \cup {"dateAdded"} |->
        IF k = "dateAdded" THEN el["created"] ELSE el["item"][k]]

\* Line 229: item["item"]["dateAdded"] = item["created"].
Hoisted(el) ==
    [el EXCEPT !["item"] =
        [k \in DOMAIN el["item"] \cup {"dateAdded"} |->
            IF k = "dateAdded" THEN el["created"] ELSE el["item"][k]]]

\* One parser for the page: the one the first element's type resolves to.
ResolvedParserOfFirst(el) == ConvertType(TypeKey(json_obj["items"][1]["type"]))

\* Lines 234-239: the parser of an element's own type.
ResolvedParser(el) == ConvertType(TypeKey(el["type"]))

\* No map_json call yet.
MapFrame ==
    [pc |-> "idle", k |-> 0, parse |-> None, lists |-> <<>>,
     outcome |-> Raised(None)]

MapIdle ==
    /\ json_obj = [id |-> "page"] /\ page_in = [id |-> "page"]
    /\ parse_arg = None /\ session_arg = None
    /\ mj = MapFrame /\ outs = <<>>

\* The caller's page, parser and session.
MapInit ==
    /\ json_obj \in Pages /\ page_in = json_obj
    /\ parse_arg \in {None, "parse"}
    /\ session_arg \in {None, "session"}
    /\ mj = MapFrame /\ outs = <<>>

\* The call ends: the frame is done and the caller has the outcome.
Ended(outcome) == [mj EXCEPT !.pc = "done", !.outcome = outcome]

\* Lines 217-227: map_json(json_obj, parse, session) up to the branch taken;
\* a page without items and a plain list are mapped at once.
MapCall ==
    /\ mj.pc \in {"idle", "done"}
    /\ Len(outs) < MaxMapCalls
    /\ IF ~HasItems(json_obj)
       THEN /\ mj' = Ended(MapSingle(json_obj, parse_arg))
            /\ outs' = Append(outs, mj'.outcome)
       ELSE IF IsWrapped(json_obj["items"])
       THEN /\ mj' = [MapFrame EXCEPT
                        !.pc = IF HoistsCreated(json_obj["items"])
                               THEN "hoist" ELSE "parse",
                        !.k = 1, !.parse = parse_arg]
            /\ outs' = outs
       ELSE /\ mj' = Ended(MapPlain(json_obj["items"], parse_arg))
            /\ outs' = Append(outs, mj'.outcome)
    /\ UNCHANGED <<json_obj, page_in, parse_arg, session_arg>>
    /\ UNCHANGED <<pagerVars, reqVars, proxyVars>>

\* Lines 228-229, one element: created is copied into the inner item, in the
\* page itself; an element without created or without item raises KeyError.
HoistStep ==
    /\ mj.pc = "hoist"
    /\ LET its == json_obj["items"]
           el == its[mj.k]
       IN  IF {"created", "item"} \subseteq DOMAIN el
           THEN /\ json_obj' = [json_obj EXCEPT !["items"][mj.k] = Hoisted(el)]
                /\ mj' = IF mj.k < Len(its)
                         THEN [mj EXCEPT !.k = mj.k + 1]
                         ELSE [mj EXCEPT !.pc = "parse", !.k = 1]
                /\ outs' = outs
           ELSE /\ mj' = Ended(Raised("KeyError"))
                /\ outs' = Append(outs, mj'.outcome)
                /\ json_obj' = json_obj
    /\ UNCHANGED <<page_in, parse_arg, session_arg>>
    /\ UNCHANGED <<pagerVars, reqVars, proxyVars>>

\* Lines 232-242, one element: the parser is resolved from the element's type
\* when a session is given, a missing parser raises ValueError, a missing type
\* or item raises KeyError, and the parsed inner item is appended.
ParseStep ==
    /\ mj.pc = "parse"
    /\ mj.k <= Len(json_obj["items"])
    /\ LET el == json_obj["items"][mj.k]
           typed == session_arg = None \/ "type" \in DOMAIN el
           parse == IF session_arg = None THEN mj.parse
                    ELSE IF typed THEN ResolvedParser(el) ELSE None
       IN  IF ~typed
           THEN /\ mj' = Ended(Raised("KeyError"))
                /\ outs' = Append(outs, mj'.outcome)
           ELSE IF parse = None
           THEN /\ mj' = [Ended(Raised("ValueError")) EXCEPT !.parse = parse]
                /\ outs' = Append(outs, mj'.outcome)
           ELSE IF "item" \notin DOMAIN el
           THEN /\ mj' = [Ended(Raised("KeyError")) EXCEPT !.parse = parse]
                /\ outs' = Append(outs, mj'.outcome)
           ELSE /\ mj' = [mj EXCEPT
                            !.parse = parse,
                            !.lists = Append(mj.lists, Apply(parse, el["item"])),
                            !.k = mj.k + 1]
                /\ outs' = outs
    /\ UNCHANGED <<json_obj, page_in, parse_arg, session_arg>>
    /\ UNCHANGED <<pagerVars, reqVars, proxyVars>>

\* Line 244.
MapReturn ==
    /\ mj.pc = "parse"
    /\ mj.k > Len(json_obj["items"])
    /\ mj' = Ended(ReturnedList(mj.lists))
    /\ outs' = Append(outs, mj'.outcome)
    /\ UNCHANGED <<json_obj, page_in, parse_arg, session_arg>>
    /\ UNCHANGED <<pagerVars, reqVars, proxyVars>>

MapNext ==
    \/ MapCall
    \/ HoistStep
    \/ ParseStep
    \/ MapReturn

\* ------------------------------------------------------------------------
\* The session with a proxy: session_proxy_patch.py
\* ------------------------------------------------------------------------
\* An empty dictionary.
EmptyDict == [k \in {} |-> ""]

\* request_session.auth = None.
NoAuth == <<>>

\* The proxy dictionaries tried: each of the keys http, https, user and
\* password is absent or has one of the values listed for it.
ProxyValues ==
    [http |-> {"h1", "h2"}, https |-> {"s1"}, user |-> {"u"},
     password |-> {"p"}]

ProxyConfigs ==
    UNION { { f \in [ks -> {"h1", "h2", "s1", "u", "p"}] :
                \A k \in ks : f[k] \in ProxyValues[k] } :
            ks \in SUBSET {"http", "https", "user", "password"} }

\* Lines 31-35: the proxies taken from a proxy dictionary.
ProxiesOf(cfg) == [k \in DOMAIN cfg \cap {"http", "https"} |-> cfg[k]]

\* dict.update: the entries of new, and those of old that new has not.
Updated(old, new) ==
    [k \in DOMAIN old \cup DOMAIN new |->
        IF k \in DOMAIN new THEN new[k] ELSE old[k]]

\* Lines 27-44, on the request session, for a dictionary that is not empty.
WithProxy(rs, cfg) ==
    [proxies |-> Updated(rs.proxies, ProxiesOf(cfg)),
     auth |-> IF {"user", "password"} \subseteq DOMAIN cfg
              THEN <<cfg["user"], cfg["password"]>> ELSE rs.auth]

\* A clearing that empties the proxies and leaves the auth.
ClearedProxiesOnly(rs) == [proxies |-> EmptyDict, auth |-> rs.auth]

\* Lines 79-80: request_session.proxies.clear() and request_session.auth = None.
Cleared(rs) == [proxies |-> EmptyDict, auth |-> NoAuth]

\* ProxyEnabledSession.__init__ (lines 12-14), on a request session that has
\* no proxies and no auth.
ProxyInit ==
    /\ proxy_config = <<>>
    /\ request_session = [proxies |-> EmptyDict, auth |-> NoAuth]
    /\ proxy_op = "init"
    /\ proxy_before = request_session

\* set_proxy(proxy_config), lines 16-44.
SetProxy(cfg) ==
    /\ proxy_config' = <<cfg>>
    /\ request_session' = IF cfg # EmptyDict
                          THEN WithProxy(request_session, cfg)
                          ELSE request_session
    /\ proxy_op' = "set_proxy"
    /\ proxy_before' = request_session
    /\ UNCHANGED <<pagerVars, reqVars, mapVars>>

\* clear_proxy(), lines 76-80.
ClearProxy ==
    /\ proxy_config' = <<>>
    /\ request_session' = Cleared(request_session)
    /\ proxy_op' = "clear_proxy"
    /\ proxy_before' = request_session
    /\ UNCHANGED <<pagerVars, reqVars, mapVars>>

ProxyNext ==
    \/ \E cfg \in ProxyConfigs : SetProxy(cfg)
    \/ ClearProxy

\* The paginator on its own, the request layer at rest.
RequestsIdle ==
    /\ session = CHOOSE s \in Sessions : s.refresh_token # ""
    /\ latest_err_response = EmptyResponse
    /\ threads = {} /\ ncalls = 0 /\ inputs = {} /\ answers = {}
    /\ maxdepth = 0 /\ th = <<>> /\ wire = {} /\ refreshes = {}

Init == PagerInit /\ RequestsIdle /\ MapIdle /\ ProxyInit

Spec == Init /\ [][PagerNext]_vars

\* The paginator at rest.
PagerIdle ==
    /\ total = 0 /\ falsy = -1 /\ outcomes = {} /\ chunk_size = 1
    /\ processes = 1
    /\ pc = "idle" /\ items = <<>> /\ offsets = <<>> /\ remaining = 0
    /\ new_items = <<>> /\ task = <<>> /\ collected = 0 /\ result = <<>>
    /\ history = <<>> /\ completed = <<>> /\ parsed = <<>>

\* One caller making request calls one after the other.
InitSequential ==
    /\ PagerIdle /\ MapIdle /\ ProxyInit
    /\ ReqInit({1}, MaxCalls, AllInputs, Responses, MaxDepth)

\* The paginator against the misbehaving endpoint.
InitMisbehaving ==
    MisbehavingInit /\ RequestsIdle /\ MapIdle /\ ProxyInit

SpecMisbehaving == InitMisbehaving /\ [][PagerNext]_vars

SpecSequential == InitSequential /\ [][ReqNext]_vars

\* Several callers, one request call each, on the same session; a request
\* that was retried is not retried again here.
InitConcurrent ==
    /\ PagerIdle /\ MapIdle /\ ProxyInit
    /\ ReqInit(1..MaxThreads, 1, {PlainGet}, ConcurrentResponses, 1)

SpecConcurrent == InitConcurrent /\ [][ReqNext]_vars

\* The paginator with every chunk_size from 0 on, on an endpoint that never
\* returns more than limit items; the main thread and the pool threads keep
\* running and every page call ends.
TerminationConfigs ==
    {<<n, c, p>> : n \in 0..MaxN, c \in 0..MaxChunk, p \in 1..2}

InitTermination ==
    /\ PagerStart(TerminationConfigs, {-1}, Outcomes \ {"long"})
    /\ RequestsIdle /\ MapIdle /\ ProxyInit

SpecTermination ==
    InitTermination /\ [][PagerNext]_vars /\ WF_vars(PagerNext)

\* map_json applied to a page, over again on the same page object.
InitMapJson == PagerIdle /\ RequestsIdle /\ MapInit /\ ProxyInit

SpecMapJson == InitMapJson /\ [][MapNext]_vars

\* A ProxyEnabledSession on which set_proxy and clear_proxy are called.
InitProxy == PagerIdle /\ RequestsIdle /\ MapIdle /\ ProxyInit

SpecProxy == InitProxy /\ [][ProxyNext]_vars

\* ------------------------------------------------------------------------
\* Properties of the paginator
\* ------------------------------------------------------------------------
Range(s) == {s[k] : k \in DOMAIN s}

\* The page calls of the finished rounds, as <<round, position>>.
Calls == {<<r, i>> : r \in 1..Len(history), i \in 1..processes}

NoFailure == \A c \in Calls : history[c[1]][c[2]].outcome = "ok"

RaisedIn(r) == {i \in 1..processes : history[r][i].outcome = "raise"}

\* C1: with no failing page, get_items returns the collection's items in
\* ascending index order, i.e. what a serial fetch yields, whatever the order
\* in which the concurrent page calls completed.
C1_OrderPreserved ==
    (pc = "done" /\ NoFailure) => result = Collection

\* A run in which two page calls that both returned items completed in the
\* reverse of their submission order, and the output is the collection.
C1_Witness ==
    /\ pc = "done" /\ NoFailure /\ Len(history) >= 2
    /\ \E k \in 1..(Len(completed) - 1) :
          /\ completed[k] > completed[k + 1]
          /\ completed[k] < total
    /\ result = Collection /\ Len(result) >= 3

\* C2: with no failing page and N = chunk_size*processes*k + r items
\* (0 <= r < chunk_size*processes), get_items returns all N items after exactly
\* k+1 rounds; N=120, chunk_size=50, processes=2 requests offsets {0,50} then
\* {100,150} and returns the 120 items in ascending original order.
C2_Termination ==
    (pc = "done" /\ NoFailure /\ chunk_size >= 1) =>
        /\ Len(result) = total
        /\ Range(result) = Range(Collection)
        /\ Len(history) = (total \div (chunk_size * processes)) + 1
        /\ (total = 120 /\ chunk_size = 50 /\ processes = 2) =>
              /\ [r \in 1..Len(history) |->
                    [i \in 1..processes |-> history[r][i].offset]]
                    = << <<0, 50>>, <<100, 150>> >>
              /\ [r \in 1..Len(history) |->
                    [i \in 1..processes |-> Len(history[r][i].raw)]]
                    = << <<50, 50>>, <<20, 0>> >>
              /\ result = [j \in 1..120 |-> Content(j - 1)]

\* The 120-item scenario has run to its end.
C2_Witness ==
    /\ pc = "done" /\ NoFailure
    /\ total = 120 /\ chunk_size = 50 /\ processes = 2
    /\ Len(history) = 2 /\ Len(result) = 120

\* C3: when exactly one page call of a round raised, the items the other page
\* calls of that round returned, and the items of all earlier rounds, are in
\* the output.
C3_FailureIsolation ==
    pc = "done" =>
        \A r \in 1..Len(history) :
            Cardinality(RaisedIn(r)) = 1 =>
                \A q \in 1..r : \A i \in 1..processes :
                    Range(history[q][i].raw) \subseteq Range(result)

\* A second round in which one page call raised and its sibling returned
\* items, all of which are in the output.
C3_Witness ==
    /\ pc = "done" /\ Len(history) = 2
    /\ Cardinality(RaisedIn(2)) = 1
    /\ \E i \in 1..processes :
          /\ history[2][i].outcome = "ok"
          /\ history[2][i].raw # <<>>
          /\ Range(history[2][i].raw) \subseteq Range(result)

WireOf(t) == {w \in wire : w.id[1] = t /\ w.id[2] = th[t].callno}

RefreshesOf(t) == {r \in refreshes : r.id[1] = t /\ r.id[2] = th[t].callno}

Success(resp) == resp.status \in 200..399

\* C5: within one call of request, token_refresh is invoked at most once and
\* the transport is called at most twice, also when the retried request is
\* answered with token expiry again.
C5_OneRefreshPerCall ==
    \A t \in threads :
        /\ Cardinality(RefreshesOf(t)) <= 1
        /\ Cardinality(WireOf(t)) <= 2

\* Every caller sent its request with the session's first token, was answered
\* with token expiry, and is about to call token_refresh or is back from it
\* with a new token.
AllObservedExpiry ==
    /\ threads # {}
    /\ \A t \in threads :
          /\ th[t].depth = 0
          /\ th[t].pc \in {"refresh", "retry"}
          /\ th[t].request.status = 401 /\ th[t].request.body = "expired"
          /\ th[t].refresh_token # ""
    /\ \A w \in wire : w.headers["authorization"] = <<"Bearer", 0>>

\* C6: when all the concurrent calls observe token expiry, token_refresh is
\* invoked once in total.
C6_SingleRefresh ==
    AllObservedExpiry => Cardinality(refreshes) <= 1

\* C7: a request re-issued after a refresh carries the refreshed access token:
\* never the first, expired one, and never a token other than the one the
\* session holds when the request is sent.
C7_RetryCarriesCurrentToken ==
    \A w \in wire :
        w.id[3] > 0 =>
            /\ w.auth_current
            /\ w.headers["authorization"][2] # 0

\* C8: request returns a response only when the final response is a success;
\* when it is not, that response is in latest_err_response and request has
\* raised the error http_error_to_tidal_error maps it to, or the HTTPError when
\* there is none.  (One caller: nothing else writes the slot meanwhile.)
C8_ReturnOrRaise ==
    \A t \in threads :
        (th[t].pc = "done" /\ th[t].outcome.error # "ConnectionError") =>
            /\ \A w \in WireOf(t) : w.id[3] <= th[t].request.id[3]
            /\ th[t].request.id = <<t, th[t].callno, th[t].depth>>
            /\ IF Success(th[t].request)
               THEN th[t].outcome = [kind |-> "returned", error |-> None]
               ELSE /\ th[t].outcome.kind = "raised"
                    /\ latest_err_response = th[t].request
                    /\ th[t].outcome.error =
                          IF HttpErrorToTidalError(th[t].request) # None
                          THEN HttpErrorToTidalError(th[t].request)
                          ELSE "HTTPError"

\* A retried request answered with 404: request raised ObjectNotFound and the
\* 404 response is in the slot.
C8_Witness ==
    /\ th[1].pc = "done" /\ th[1].depth = 1
    /\ th[1].request.status = 404
    /\ th[1].outcome = [kind |-> "raised", error |-> "ObjectNotFound"]
    /\ latest_err_response = th[1].request

\* The step in which t's request call ends with a response.
Returns(t) == th[t].pc = "return" /\ th'[t].pc = "done"

\* C9: a call that ends with a non-success response puts that response in
\* latest_err_response, a call that ends with a success leaves the slot as it
\* was, and nothing else changes it: the slot holds the response of the most
\* recent call that failed.
C9_LatestErrIsLastFailure ==
    [][ /\ \A t \in threads :
             Returns(t) =>
                 latest_err_response' =
                     IF Success(th[t].request)
                     THEN latest_err_response ELSE th[t].request
        /\ (\A t \in threads : ~Returns(t)) =>
               latest_err_response' = latest_err_response ]_vars

\* After a failed first call and a successful second one the slot still holds
\* the first call's response.
C9_Witness ==
    /\ th[1].pc = "done" /\ th[1].callno = 2
    /\ th[1].outcome.kind = "returned"
    /\ latest_err_response.id[2] = 1
    /\ latest_err_response.status = 500

\* C10: token_refresh is invoked only for a non-success response whose body
\* signals token expiry, with a refresh token in the session; a request is
\* re-issued only after a refresh that reported success, with the method, URL,
\* query parameters and body of the request before it; after a refresh that
\* reported failure the failed response is the result of basic_request.
C10_RefreshAndRetry ==
    /\ \A r \in refreshes :
          /\ ~Success(r.trigger)
          /\ r.trigger.body = "expired"
          /\ r.refresh_token # "" /\ r.refresh_token = session.refresh_token
    /\ \A w \in wire :
          w.id[3] > 0 =>
              /\ \E r \in refreshes :
                    r.id = <<w.id[1], w.id[2], w.id[3] - 1>> /\ r.refreshed
              /\ \E v \in wire :
                    /\ v.id = <<w.id[1], w.id[2], w.id[3] - 1>>
                    /\ v.method = w.method /\ v.url = w.url
                    /\ v.params = w.params /\ v.data = w.data
    /\ \A t \in threads : \A r \in RefreshesOf(t) :
          (~r.refreshed) =>
              /\ th[t].depth = r.id[3]
              /\ th[t].pc \in {"return", "done"}
              /\ th[t].request = r.trigger
              /\ \A w \in WireOf(t) : w.id[3] <= r.id[3]

\* A POST to a base URL of its own was re-issued after a successful refresh,
\* the second refresh failed, and the call has ended with the second response.
C10_Witness ==
    /\ th[1].pc = "done" /\ th[1].depth = 1
    /\ \E w \in WireOf(1) :
          w.id[3] = 1 /\ w.method = "POST" /\ w.url.base = "v2"
    /\ \E r \in RefreshesOf(1) : r.id[3] = 1 /\ ~r.refreshed
    /\ \E r \in RefreshesOf(1) : r.id[3] = 0 /\ r.refreshed

\* The session holds a token type and an access token (line 95).
HasCredentials == session.token_type # "" /\ session.access_token # -1

C12_CredentialsFrame ==
    [][ (session' # session) =>
            \E t \in threads :
                /\ th[t].pc = "refresh" /\ th'[t].pc = "retry"
                /\ ~Success(th[t].request)
                /\ th[t].request.body = "expired"
                /\ session.refresh_token # ""
                /\ \E r \in refreshes' \ refreshes :
                      r.id = <<t, th[t].callno, th[t].depth>> /\ r.refreshed
      ]_vars

\* With a refresh token at hand, a call that succeeded and a call that failed
\* with a status that is no expiry have ended, a transport failure happened,
\* and the session holds the credentials it started with.
C12_Witness ==
    /\ th[1].pc = "done" /\ th[1].callno = 2
    /\ th[1].request.status = 404 /\ th[1].outcome.kind = "raised"
    /\ session.refresh_token # "" /\ session.access_token = 0
    /\ refreshes = {}
    /\ \E w \in wire : w.id[2] = 1 /\ w.id[3] = 0

\* ------------------------------------------------------------------------
\* Properties of the page mapper
\* ------------------------------------------------------------------------
\* The caller's page has items and its first element is wrapped.
WrappedPage == HasItems(page_in) /\ IsWrapped(page_in["items"])

\* The parser the session keeps for a type tag.
ParserOfType(type) ==
    IF type \in {"TRACK", "track"} THEN "parse_track" ELSE "parse_album"

\* C13: for a page of wrapped items and a session given, every element of the
\* list map_json returns was parsed by the parser of that element's own type
\* tag (lower-cased, with an "s"), from that element's inner item, and the list
\* has the length and the order of the page's items.
C13_PerItemParser ==
    (mj.pc = "done" /\ mj.outcome.kind = "returned"
        /\ WrappedPage /\ session_arg # None) =>
        /\ Len(mj.outcome.value) = Len(page_in["items"])
        /\ \A k \in DOMAIN page_in["items"] :
              /\ mj.outcome.value[k].by
                    = ParserOfType(page_in["items"][k]["type"])
              /\ mj.outcome.value[k].obj["id"]
                    = page_in["items"][k]["item"]["id"]

\* A page of an album followed by a track was mapped with a session: the first
\* result is the album parser's, the second the track parser's.
C13_Witness ==
    /\ mj.pc = "done" /\ mj.outcome.kind = "returned"
    /\ WrappedPage /\ session_arg # None
    /\ Len(mj.outcome.value) = 2
    /\ mj.outcome.value[1].by = "parse_album"
    /\ mj.outcome.value[2].by = "parse_track"

\* C14: map_json applied again to the same page, with the same parser and
\* session, ends as the first application did: the same value, or the same
\* error.
C14_Idempotent ==
    \A i \in DOMAIN outs : \A j \in DOMAIN outs : outs[i] = outs[j]

\* The first application wrote dateAdded into the page, and the second one
\* returned a list.
C14_Witness ==
    /\ Len(outs) = MaxMapCalls
    /\ json_obj # page_in
    /\ outs[Len(outs)].kind = "returned" /\ Len(outs[Len(outs)].value) >= 2

\* C15: in the list returned for a page of wrapped items, the inner item
\* handed to the parser has dateAdded equal to created for every element that
\* has created, and is the inner item as it came for every element that has
\* not.
C15_HoistPerElement ==
    (mj.pc = "done" /\ mj.outcome.kind = "returned" /\ WrappedPage) =>
        \A k \in DOMAIN page_in["items"] :
            LET el == page_in["items"][k]
                arg == mj.outcome.value[k].obj
            IN  IF "created" \in DOMAIN el
                THEN /\ "dateAdded" \in DOMAIN arg
                     /\ arg["dateAdded"] = el["created"]
                ELSE arg = el["item"]

\* No parse function is given where map_json needs one: the page has no items,
\* or its items are plain, or they are wrapped and there is no session.
ParseRequiredAbsent ==
    /\ parse_arg = None
    /\ \/ ~HasItems(page_in)
       \/ ~IsWrapped(page_in["items"])
       \/ session_arg = None

\* C16: whenever a parse function is required and absent, map_json raises
\* ValueError and no parser was invoked; a page without items and with a parse
\* function returns parse(page).
C16_ValueErrorWhenParseAbsent ==
    mj.pc = "done" =>
        /\ ParseRequiredAbsent =>
              /\ mj.outcome = Raised("ValueError")
              /\ mj.lists = <<>>
        /\ (~HasItems(page_in) /\ parse_arg # None) =>
              mj.outcome = ReturnedSingle(Apply(parse_arg, page_in))

\* ------------------------------------------------------------------------
\* More properties of the paginator
\* ------------------------------------------------------------------------
\* The collection index of a raw item, which its content tells.
IndexOf(v) == IF v = 0 THEN falsy ELSE v - 1

\* How many times the page calls of the finished rounds returned the item v.
ReturnedOcc(v) ==
    Cardinality({c \in Calls \X (1..total) :
                    LET raw == history[c[1][1]][c[1][2]].raw
                    IN  c[2] <= Len(raw) /\ raw[c[2]] = v})

\* How many times v is in the output.
ResultOcc(v) == Cardinality({k \in DOMAIN result : result[k] = v})

\* C17: no element of what get_items returns is a falsy raw item (here 0)
\* that a page call returned.
C17_FalsyDropped ==
    pc = "done" => \A k \in DOMAIN result : result[k] # 0

\* C18: with pages that return fewer items than asked for, or more, so that
\* indices are missing or tagged twice, the output of get_items is in
\* non-decreasing order of collection index, and every item that the page
\* calls returned exactly once is in the output exactly once.
C18_OrderUnderMisbehaviour ==
    pc = "done" =>
        /\ \A k \in 1..(Len(result) - 1) :
              IndexOf(result[k]) <= IndexOf(result[k + 1])
        /\ \A v \in 0..(total + 1) :
              ReturnedOcc(v) = 1 => ResultOcc(v) = 1

\* A run with a long and a short page in which an item was returned twice, an
\* index below a returned one was never returned, and the items were not
\* collected in index order.
C18_Witness ==
    /\ pc = "done"
    /\ \E c \in Calls : history[c[1]][c[2]].outcome = "long"
    /\ \E c \in Calls : history[c[1]][c[2]].outcome = "short"
    /\ \E v \in 1..total : ReturnedOcc(v) >= 2
    /\ \E v \in 1..total : \E w \in 1..total :
          v < w /\ ReturnedOcc(v) = 0 /\ ReturnedOcc(w) = 1
    /\ \E k \in 1..(Len(items) - 1) : items[k][1] > items[k + 1][1]

\* The page calls submitted to the pool and not finished.
Outstanding == {i \in DOMAIN task : task[i].st \in {"queued", "running"}}

\* C19: in every state of a get_items invocation at most processes page calls
\* are running, and at most processes are submitted and not finished.
C19_InFlightBounded ==
    /\ Cardinality(Running) <= processes
    /\ Cardinality(Outstanding) <= processes

\* Every worker thread of a pool of two or more is in a page call.
C19_Witness ==
    /\ processes >= 2
    /\ Cardinality(Running) = processes

\* C20: once get_items has left the with block, on the way to its return or
\* with an exception, no page call is running and none is waiting to run.
C20_PoolReleased ==
    pc \in {"post", "done", "raised"} => Running = {} /\ Outstanding = {}

\* get_items has raised: the first call of the round failed outside the
\* try block, a call behind it was cancelled, and another one, which returned
\* its page, had been let to finish.
C20_Witness ==
    /\ pc = "raised" /\ collected = 0
    /\ \E i \in DOMAIN task : task[i].st = "cancelled"
    /\ \E i \in DOMAIN task :
          i > 1 /\ task[i].st = "done" /\ task[i].outcome = "ok"

\* ------------------------------------------------------------------------
\* More properties of the request layer
\* ------------------------------------------------------------------------
\* The default of a query parameter that the session provides.
DefaultParam(k) ==
    CASE k = "sessionId" -> session.session_id
      [] k = "countryCode" -> session.country_code
      [] k = "limit" -> session.item_limit

DefaultKeys == {"sessionId", "countryCode", "limit"}

\* C21: the query parameters of every request sent are the three defaults
\* (sessionId, countryCode, limit) overridden by the caller's parameters that
\* are not None: a parameter the caller gave as None keeps its default if it
\* has one and is not sent otherwise, and None is never sent.
C21_ParamsMerged ==
    \A t \in threads : \A w \in WireOf(t) :
        LET p == th[t].args.params
        IN  /\ DOMAIN w.params \subseteq DefaultKeys \cup DOMAIN p
            /\ DefaultKeys \subseteq DOMAIN w.params
            /\ \A k \in DOMAIN w.params : w.params[k] # None
            /\ \A k \in DOMAIN p :
                  IF p[k] # None
                  THEN k \in DOMAIN w.params /\ w.params[k] = p[k]
                  ELSE k \in DefaultKeys \/ k \notin DOMAIN w.params
            /\ \A k \in DefaultKeys :
                  (k \notin DOMAIN p \/ p[k] = None) =>
                      w.params[k] = DefaultParam(k)

\* Two requests went out and were retried after a refresh: one whose caller
\* gave limit and a None offset, one whose caller gave a None countryCode and
\* an order.
C21_Witness ==
    /\ \E w \in wire :
          /\ w.id[3] = 1 /\ w.method = "POST"
          /\ w.params["limit"] = "10" /\ "offset" \notin DOMAIN w.params
    /\ \E w \in WireOf(1) :
          /\ w.id[3] = 1
          /\ th[1].args.params = [countryCode |-> None, order |-> "DATE"]
          /\ w.params["countryCode"] = "US" /\ w.params["order"] = "DATE"
          /\ w.params["limit"] = "1000"

\* C22: while no request has failed, get_latest_err_response returns the empty
\* dict and get_latest_err_response_str the empty string; once a request has
\* failed with a response that has a body, both return data of the response of
\* the most recent failed request.
C22_LatestErrGetters ==
    /\ latest_err_response = EmptyResponse =>
          /\ GetLatestErrResponse(latest_err_response).kind = "returned"
          /\ GetLatestErrResponse(latest_err_response).empty
          /\ GetLatestErrResponseStr(latest_err_response).kind = "returned"
          /\ GetLatestErrResponseStr(latest_err_response).empty
    /\ HasContent(latest_err_response) =>
          /\ GetLatestErrResponse(latest_err_response)
                = Got("returned", None, FALSE, latest_err_response.id)
          /\ GetLatestErrResponseStr(latest_err_response)
                = Got("returned", None, FALSE, latest_err_response.id)

\* ------------------------------------------------------------------------
\* Properties of the session with a proxy
\* ------------------------------------------------------------------------
\* C23: after clear_proxy, whatever set_proxy calls came before it,
\* proxy_config is None, the proxies of the request session are empty and its
\* auth is None.
C23_ClearProxyClears ==
    proxy_op = "clear_proxy" =>
        /\ proxy_config = <<>>
        /\ request_session.proxies = EmptyDict
        /\ request_session.auth = NoAuth

\* clear_proxy was called on a session whose request session had both proxies
\* and an auth, left by set_proxy calls.
C23_Witness ==
    /\ proxy_op = "clear_proxy"
    /\ DOMAIN proxy_before.proxies = {"http", "https"}
    /\ proxy_before.auth = <<"u", "p">>
    /\ request_session.proxies = EmptyDict

\* ------------------------------------------------------------------------
\* The rounds of the paginator
\* ------------------------------------------------------------------------
\* The number of items the pages of the finished round r returned in all.
RoundTotal(r) ==
    Cardinality({c \in (DOMAIN history[r]) \X (1..total) :
                    c[2] <= Len(history[r][c[1]].raw)})

Capacity == chunk_size * processes

\* C24: a round is dispatched after another only when that one returned, over
\* all its pages, exactly chunk_size*processes items, and get_items goes on
\* to its end only after a round whose total is not that: every finished round
\* but the last has the full total, and the last round processed has not.
C24_NextRoundIffFull ==
    /\ \A r \in 1..(Len(history) - 1) : RoundTotal(r) = Capacity
    /\ (pc \in {"round", "raising", "raised"} /\ Len(history) >= 1) =>
          RoundTotal(Len(history)) = Capacity
    /\ pc \in {"post", "done"} =>
          Len(history) >= 1 /\ RoundTotal(Len(history)) # Capacity

\* A first round of a long and a short page that add up to a full round was
\* followed by a second round, which returned less and was the last.
C24_Witness ==
    /\ pc = "done" /\ Len(history) >= 2
    /\ \E i \in DOMAIN history[1] : history[1][i].outcome = "long"
    /\ \E i \in DOMAIN history[1] : history[1][i].outcome = "short"
    /\ RoundTotal(1) = Capacity
    /\ RoundTotal(Len(history)) \in 1..(Capacity - 1)

\* The indices of the pages of round r whose call raised.
FailedIndices(r) ==
    UNION { history[r][i].offset..(history[r][i].offset + chunk_size - 1) :
                i \in RaisedIn(r) }

\* C25: with chunk_size >= 1 and pages of at most chunk_size items, a round in
\* which a page call raised is the last one: its total is below chunk_size*processes, the loop
\* does not go on and no further offset is requested, and get_items returns,
\* without an error, a list that has neither the items of the failed pages nor
\* any item of an index beyond that round.
C25_FailureTruncates ==
    \A r \in 1..Len(history) :
        (RaisedIn(r) # {} /\ chunk_size >= 1) =>
            /\ RoundTotal(r) < Capacity
            /\ r = Len(history)
            /\ pc \in {"loop", "post", "done"}
            /\ ~LoopCond(remaining, chunk_size, processes)
            /\ \A i \in DOMAIN task : task[i].offset = history[r][i].offset
            /\ pc = "done" =>
                  \A k \in DOMAIN result :
                      /\ IndexOf(result[k]) < r * Capacity
                      /\ IndexOf(result[k]) \notin FailedIndices(r)

\* After a full first round, a page call of the second round raised while the
\* other returned a full page, the collection has items beyond that round, and
\* get_items has returned a list that is shorter than the collection.
C25_Witness ==
    /\ pc = "done" /\ Len(history) = 2
    /\ RaisedIn(2) # {} /\ RoundTotal(2) >= chunk_size
    /\ total > 2 * Capacity
    /\ Len(result) < total /\ Len(result) > Capacity

\* C26: the k-th item (counting from 0) that a page call returned is tagged
\* with the offset requested for that page plus k, whatever the place of the
\* page in its round and whenever the call completed; the pairs get_items
\* collects are these.
C26_GlobalIndexTag ==
    /\ \A i \in DOMAIN task :
          (task[i].st = "done" /\ ~task[i].res.exc) =>
              /\ Len(task[i].res.val) = Len(task[i].raw)
              /\ \A k \in DOMAIN task[i].raw :
                    task[i].res.val[k]
                        = <<task[i].offset + (k - 1), task[i].raw[k]>>
    /\ \A x \in Range(items) \cup Range(new_items) :
          \E r \in 1..(Len(history) + 1) : \E i \in DOMAIN task :
              LET call == IF r <= Len(history) THEN history[r][i] ELSE task[i]
              IN  \E k \in DOMAIN call.raw :
                      x = <<call.offset + (k - 1), call.raw[k]>>

\* The second page call of a round completed while the first was still
\* running, and returned more items than asked for: its last item has the
\* index of its offset plus its position in that page.
C26_Witness ==
    /\ pc = "round" /\ Len(task) = 2
    /\ task[1].st = "running" /\ task[2].st = "done"
    /\ task[2].outcome = "long" /\ Len(task[2].raw) > chunk_size
    /\ task[2].res.val[Len(task[2].raw)][1]
          = task[2].offset + Len(task[2].raw) - 1
    /\ task[2].offset > 0

\* The number, from 0, of the round whose page calls task holds.
RoundOfTask ==
    IF pc \in {"round", "raising", "raised"} THEN Len(history)
    ELSE Len(history) - 1

\* C27: in round n (from 0) the page call of worker i (from 0) is
\* f(chunk_size, (n*processes + i)*chunk_size, *args) with the extra arguments
\* as get_items got them; the offsets requested in the finished rounds are the
\* multiples of chunk_size from 0 on, each once.
C27_OffsetsContiguous ==
    /\ RoundOfTask >= 0 =>
          \A i \in DOMAIN task :
              /\ task[i].call
                    = <<chunk_size,
                        (RoundOfTask * processes + (i - 1)) * chunk_size>>
                      \o ExtraArgs
              /\ task[i].offset = task[i].call[2]
    /\ \A c \in Calls :
          history[c[1]][c[2]].offset
              = ((c[1] - 1) * processes + (c[2] - 1)) * chunk_size
    /\ \A c \in Calls : \A d \in Calls :
          history[c[1]][c[2]].offset = history[d[1]][d[2]].offset => c = d
    /\ {history[c[1]][c[2]].offset : c \in Calls}
          = {k * chunk_size : k \in 0..(Len(history) * processes - 1)}

\* The second round of two worker threads is under way: its last call has
\* started, with limit 2 and offset 6.
C27_Witness ==
    /\ pc = "round" /\ Len(history) = 1
    /\ processes = 2 /\ chunk_size = 2
    /\ task[2].st = "running"
    /\ task[2].call = <<2, 6>> \o ExtraArgs

\* C28: a step that dispatches the page calls of a round after the first is
\* taken only when every page call of the round before is done and its result
\* has been collected by the loop of lines 53-54.
C28_RoundsSynchronized ==
    [][offsets' # offsets =>
          /\ \/ history = <<>>
             \/ /\ \A i \in DOMAIN task : task[i].st = "done"
                /\ collected = Len(task)
                /\ Len(task) = processes
          /\ \A i \in DOMAIN task' : task'[i].st = "queued"]_vars

\* The calls of a second round have just been dispatched, after the calls of
\* the first round completed in another order than they were submitted.
C28_Witness ==
    /\ pc = "round" /\ Len(history) = 1
    /\ processes = 2
    /\ \A i \in DOMAIN task : task[i].st = "queued"
    /\ Len(completed) = processes
    /\ completed[1] > completed[2]

\* The (index, item) pairs that line 59 keeps.
Retained == Filter(items)

\* C29: parse is not called before the loop has ended and the pool is shut
\* down, with no page call queued or running; it is then called once for each
\* retained item, in ascending order of the global index, and the results
\* are returned in that order.
C29_ParseAfterPool ==
    /\ pc \notin {"done"} => parsed = <<>>
    /\ pc \in {"post", "done"} =>
          /\ Running = {}
          /\ \A i \in DOMAIN task : task[i].st = "done"
          /\ collected = Len(task)
          /\ ~LoopCond(remaining, chunk_size, processes)
    /\ pc = "done" =>
          /\ Len(parsed) = Len(Retained)
          /\ \A v \in Range(parsed) :
                Cardinality({k \in DOMAIN parsed : parsed[k] = v})
                    = Cardinality({j \in DOMAIN Retained : Retained[j][1] = v})
          /\ \A k \in 1..(Len(parsed) - 1) : parsed[k] <= parsed[k + 1]
          /\ Len(result) = Len(parsed)
          /\ \A k \in DOMAIN result :
                \E j \in DOMAIN Retained :
                    /\ Retained[j][1] = parsed[k]
                    /\ result[k] = Parse(Retained[j][2])

\* get_items returned after two rounds whose page calls completed in another
\* order than they were submitted; parse was called for five items.
C29_Witness ==
    /\ pc = "done" /\ Len(history) >= 2
    /\ Len(parsed) = 5
    /\ \E k \in 1..(Len(completed) - 1) : completed[k] > completed[k + 1]

TransportError == [kind |-> "raised", error |-> "ConnectionError"]

\* C30: the step in which the transport raises ends the call with that error
\* and changes neither latest_err_response nor the session, with no refresh;
\* and from then on the call makes no transport call and no refresh call, and
\* the error the caller got stays the transport's.
C30_TransportErrorPropagates ==
    [][\A t \in threads :
          /\ (th[t].pc = "send" /\ th'[t].outcome = TransportError) =>
                /\ th'[t].pc = "done"
                /\ latest_err_response' = latest_err_response
                /\ refreshes' = refreshes
                /\ session' = session
                /\ wire' \ wire \subseteq {Sent(t)}
          /\ (th[t].outcome = TransportError
                /\ th'[t].callno = th[t].callno) =>
                /\ th'[t] = th[t]
                /\ {w \in wire' : w.id[1] = t /\ w.id[2] = th[t].callno}
                      = WireOf(t)
                /\ {r \in refreshes' : r.id[1] = t /\ r.id[2] = th[t].callno}
                      = RefreshesOf(t)
                /\ latest_err_response' = latest_err_response]_vars

\* The transport raised in the retry after a token refresh, in a second call
\* whose predecessor had left a failed response in latest_err_response.
C30_Witness ==
    \E t \in threads :
        /\ th[t].pc = "done" /\ th[t].outcome = TransportError
        /\ th[t].callno = 2 /\ th[t].depth = 1
        /\ latest_err_response # EmptyResponse
        /\ Cardinality(WireOf(t)) = 2 /\ Cardinality(RefreshesOf(t)) = 1

\* The callers whose request call ended with a response that is not ok.
FailedCallers ==
    {t \in threads : /\ th[t].pc = "done" /\ th[t].outcome.kind = "raised"
                     /\ th[t].outcome # TransportError}

\* C31: a request call that ends with a failed response writes it to
\* latest_err_response over whatever another call left there, so that from
\* then on get_latest_err_response gives the last writer's response to every
\* caller, also to the callers that failed before with another response.
C31_LastWriterWins ==
    [][\A t \in threads :
          (Returns(t) /\ ~Ok(th[t].request)) =>
              /\ latest_err_response' = th[t].request
              /\ \A u \in FailedCallers \ {t} :
                    /\ th'[u] = th[u]
                    /\ th[u].request.id # th[t].request.id
                    /\ GetLatestErrResponse(latest_err_response').of
                          = th[t].request.id]_vars

\* Callers 1 and 2 both failed; caller 1, reading the slot after its own
\* failure, gets the response of caller 2's call.
C31_Witness ==
    /\ {1, 2} \subseteq FailedCallers
    /\ latest_err_response = th[2].request
    /\ GetLatestErrResponse(latest_err_response).kind = "returned"
    /\ GetLatestErrResponse(latest_err_response).of # th[1].request.id
    /\ th[1].request.status # th[2].request.status

\* No page call so far returned a value that is not iterable.
PagesIterable ==
    /\ \A c \in Calls : history[c[1]][c[2]].outcome # "noniter"
    /\ \A i \in DOMAIN task : task[i].outcome # "noniter"

\* C32: on an endpoint that never returns more than limit items, with page
\* calls that fail or not, get_items with chunk_size >= 1 comes to its end,
\* and with chunk_size = 0 it never leaves the round loop: every round returns
\* 0 items, the full capacity, and the while condition holds again.
C32_TerminatesIffPositive ==
    /\ [](chunk_size >= 1 => <>(pc \in {"done", "raised"}))
    /\ []((chunk_size = 0 /\ PagesIterable) =>
              /\ pc \in {"loop", "round"}
              /\ remaining = 0 /\ Capacity = 0
              /\ pc = "loop" => LoopCond(remaining, chunk_size, processes)
              /\ \A c \in Calls : history[c[1]][c[2]].raw = <<>>)

\* With chunk_size = 0 two rounds have ended, one of them with a page call
\* that raised, and the while condition holds for a third.
C32_Witness ==
    /\ chunk_size = 0 /\ total >= 1 /\ processes = 2
    /\ pc = "loop" /\ Len(history) = 2
    /\ RaisedIn(1) # {} /\ RaisedIn(2) = {}
    /\ LoopCond(remaining, chunk_size, processes)

\* The first map_json call on the page has ended.
FirstMapEnded == mj.pc = "done" /\ Len(outs) = 1 /\ HasItems(page_in)

\* The caller's page has a first element, and it has the key item.
FirstWrapped ==
    /\ Len(page_in["items"]) > 0
    /\ "item" \in DOMAIN page_in["items"][1]

\* The later elements of the page that lack a key from keys.
LaterLacking(keys) ==
    {k \in 2..Len(page_in["items"]) :
        ~(keys \subseteq DOMAIN page_in["items"][k])}

\* The keys the wrapped branch reads in every element, given what the first
\* element made it decide and whether a resolver is supplied.
KeysRead ==
    {"item"}
        \cup (IF HoistsCreated(page_in["items"]) THEN {"created"} ELSE {})
        \cup (IF session_arg # None THEN {"type"} ELSE {})

\* The keys the claim names, whatever the first element has.
KeysNamed ==
    {"item", "created"} \cup (IF session_arg # None THEN {"type"} ELSE {})

\* A plain first element: every element goes to the one parser as it is.
PlainAsIs ==
    (FirstMapEnded /\ ~FirstWrapped /\ parse_arg # None) =>
        /\ mj.outcome
              = ReturnedList([k \in DOMAIN page_in["items"] |->
                                 Apply(parse_arg, page_in["items"][k])])
        /\ json_obj = page_in

\* C33 as stated: with a wrapped first element, a later element that lacks
\* item or created (or type, with a resolver) makes the call end in an error
\* with the page already modified; with a plain first element every element
\* is passed to the single parser as is.
C33_FirstElementDecides ==
    /\ (FirstMapEnded /\ FirstWrapped
          /\ LaterLacking(KeysNamed) # {}) =>
            /\ mj.outcome.kind = "raised"
            /\ json_obj # page_in
    /\ PlainAsIs

\* C33, amended: with a wrapped first element, a later element that lacks a
\* key the branch reads (item; created when the first element has created;
\* type with a resolver) makes the call end in an error, with no list
\* returned; the page has been modified by then exactly when the first
\* element has created.  With a plain first element every element is passed
\* to the single parser as is.
C33_FirstElementDecidesAmended ==
    /\ (FirstMapEnded /\ FirstWrapped
          /\ LaterLacking(KeysRead) # {}) =>
            /\ mj.outcome.kind = "raised"
            /\ mj.outcome.error \in {"KeyError", "ValueError"}
            /\ mj.outcome.value = <<>>
            /\ json_obj # page_in <=> HoistsCreated(page_in["items"])
            /\ HoistsCreated(page_in["items"]) =>
                  json_obj["items"][1] = Hoisted(page_in["items"][1])
    /\ PlainAsIs

\* A page of a wrapped element with created followed by a plain one: the call
\* ended in KeyError with dateAdded already written into the first element.
C33_Witness ==
    /\ FirstMapEnded /\ Len(page_in["items"]) = 2
    /\ FirstWrapped /\ HoistsCreated(page_in["items"])
    /\ "item" \notin DOMAIN page_in["items"][2]
    /\ parse_arg # None
    /\ mj.outcome = Raised("KeyError")
    /\ "dateAdded" \in DOMAIN json_obj["items"][1]["item"]
    /\ "dateAdded" \notin DOMAIN page_in["items"][1]["item"]

\* The dictionary set_proxy was last called with, or an empty one when
\* proxy_config is None.
CurrentProxyConfig ==
    IF proxy_config = <<>> THEN EmptyDict ELSE proxy_config[1]

\* C34: after any sequence of set_proxy and clear_proxy calls the proxies of
\* the request session are exactly the http and https entries of the current
\* proxy_config, and its auth is set exactly when the current proxy_config has
\* both user and password.
C34_ProxyMatchesConfig ==
    /\ request_session.proxies = ProxiesOf(CurrentProxyConfig)
    /\ request_session.auth # NoAuth
          <=> {"user", "password"} \subseteq DOMAIN CurrentProxyConfig
    /\ request_session.auth # NoAuth =>
          request_session.auth
              = <<CurrentProxyConfig["user"], CurrentProxyConfig["password"]>>

====
